---- MODULE Spec2Model ----
(***************************************************************************)
(* Model of the Sopel dice plugin with weekly high scores                  *)
(* (src/sopel/builtins/dice.score.py): the dice_highscores table and the   *)
(* helpers that read and write it, the DicePouch class, and the roll       *)
(* command: its parsing, _roll_dice, the renderings and the follow-up.     *)
(***************************************************************************)
EXTENDS Integers, Sequences, FiniteSets, TLC

VARIABLES
    tab,      \* the dice_highscores table: a set of rows
    clock,    \* int(time.time()), epoch seconds
    last,     \* the last completed call: its arguments, the table it started from, its result
    pc,       \* per thread: the statement the thread is about to execute
    loc,      \* per thread: the locals of the call in progress
    ev,       \* the last statement executed against the table by a thread
    pouch,    \* the DicePouch under test: num, type, dice, dropped
    drops,    \* drop_lowest calls made on the pouch since it was rolled
    lastDrop, \* the last drop_lowest call: its n and the pouch it started from
    text,     \* trigger.group(2) of a roll command: a sequence of characters
    parsed,   \* what roll made of text before rolling: arg_str_raw, arg_str, dice_expressions
    expr,     \* the match object handed to _roll_dice: its three named groups
    rolled,   \* how that _roll_dice call ended: the pouch returned or the exception raised
    rendered, \* what roll's _get_eval_str and _get_pretty_str made of the pouch returned,
              \* or what the reading methods made of the pouch under test
    request,  \* a roll command: its dice expressions, the arithmetic around them, sender and nick
    outcome   \* what roll did with the request: messages sent, exception, store update

\* The variables of the roll command.
pipeVars == <<text, parsed, expr, rolled, rendered, request, outcome>>

vars == <<tab, clock, last, pc, loc, ev, pouch, drops, lastDrop, pipeVars>>

(***************************************************************************)
(* Bounds of the model.                                                    *)
(***************************************************************************)
MaxTicks == 2
MaxThreadTicks == 3
MaxScore == 2
MaxLimit == 2
MaxCount == 4
MaxFaces == 3
MaxDrops == 2
MaxLen == 4
MaxExprs == 2
MaxRollTicks == 1
MaxReads == 2

(***************************************************************************)
(* Program constants, and the inputs the calls are made with.             *)
(***************************************************************************)
\* Number of seconds a high score remains valid (7 days)
WEEK_SECONDS == 7 * 24 * 60 * 60

Channels == {"#a", "#b"}
Scores == 1..MaxScore
Limits == 0..MaxLimit
Threads == {"t1", "t2"}

\* Who speaks where: the (channel, nick) pairs the scores are kept for.
Members == {<<"#a", "amy">>, <<"#a", "bob">>, <<"#b", "amy">>}

\* The (trigger.sender, trigger.nick) pairs of a command: in a channel, in a
\* channel named in upper case, and in a private message (the sender is the nick).
Triggers == Members \cup {<<"#A", "amy">>, <<"amy", "amy">>}

\* trigger.sender.startswith('#')
StartsWithHash(sender) == sender \in {"#a", "#A", "#b"}

\* trigger.sender.lower()
Lower(sender) == IF sender = "#A" THEN "#a" ELSE sender

\* The clock advances by a second or by a whole week, so that ages just below,
\* exactly at and just above WEEK_SECONDS all occur.
Deltas == {1, WEEK_SECONDS}

\* The number of advances that produced clock value c.
Elapsed(c) == (c \div WEEK_SECONDS) + (c % WEEK_SECONDS)

\* Python's Optional: None, or a value.
None == << >>
Some(x) == <<x>>

Min(a, b) == IF a <= b THEN a ELSE b

(***************************************************************************)
(* The table and its SQL statements.                                       *)
(***************************************************************************)
Row(channel, nick, score, set_at) ==
    [channel |-> channel, nick |-> nick, score |-> score, set_at |-> set_at]

\* CREATE TABLE IF NOT EXISTS dice_highscores (...)
setup == {}

\* DELETE FROM dice_highscores WHERE set_at < ?
DeleteWhere_inclusive(t, threshold) == {r \in t : ~(r.set_at <= threshold)}
DeleteWhere(t, threshold) == {r \in t : ~(r.set_at < threshold)}

\* _purge_expired(bot, now)
_purge_expired_early(t, now) ==
    LET threshold == now - WEEK_SECONDS + 1
    IN  DeleteWhere(t, threshold)
_purge_expired_two_weeks(t, now) ==
    LET threshold == now - 2 * WEEK_SECONDS
    IN  DeleteWhere(t, threshold)
_purge_expired_nothing(t, now) == t

_purge_expired(t, now) ==
    LET threshold == now - WEEK_SECONDS
    IN  DeleteWhere(t, threshold)

\* SELECT score, set_at FROM dice_highscores WHERE channel = ? AND nick = ?
\* followed by fetchone(): None, or the first matching row.
SelectRow(t, channel, nick) ==
    LET found == {r \in t : r.channel = channel /\ r.nick = nick}
    IN  IF found = {} THEN None ELSE Some(CHOOSE r \in found : TRUE)

\* REPLACE INTO dice_highscores(channel, nick, score, set_at) VALUES (?,?,?,?)
\* with PRIMARY KEY(channel, nick): the conflicting row is deleted, the new one inserted.
ReplaceInto_no_key(t, row) == t \cup {row}
ReplaceInto(t, row) ==
    {r \in t : ~(r.channel = row.channel /\ r.nick = row.nick)} \cup {row}

\* prev_score of _update_highscore: the fetched row's score when it is still valid.
PrevScore(row, now) ==
    IF row # None /\ row[1].set_at >= now - WEEK_SECONDS
    THEN Some(row[1].score)
    ELSE None

\* The condition under which _update_highscore writes.
ShouldWrite_always(prev_score, score) == TRUE
ShouldWrite_or_equal(prev_score, score) ==
    prev_score = None \/ score >= prev_score[1]
ShouldWrite(prev_score, score) == prev_score = None \/ score > prev_score[1]

\* _update_highscore(bot, channel, nick, score, now): the table afterwards and
\* the value returned.
_update_highscore_keeps_expired(t, channel, nick, score, now) ==
    LET row == SelectRow(t, channel, nick)
        prev_score == IF row # None THEN Some(row[1].score) ELSE None
    IN  IF ShouldWrite(prev_score, score)
        THEN [tab |-> ReplaceInto(t, Row(channel, nick, score, now)),
              ret |-> prev_score]
        ELSE [tab |-> t, ret |-> prev_score]

_update_highscore(t, channel, nick, score, now) ==
    LET purged == _purge_expired(t, now)
        row == SelectRow(purged, channel, nick)
        prev_score == PrevScore(row, now)
    IN  IF ShouldWrite(prev_score, score)
        THEN [tab |-> ReplaceInto(purged, Row(channel, nick, score, now)),
              ret |-> prev_score]
        ELSE [tab |-> purged, ret |-> prev_score]

\* ORDER BY score DESC, set_at ASC: r1 must come before r2.
Before_ties_late(r1, r2) ==
    r1.score > r2.score \/ (r1.score = r2.score /\ r1.set_at > r2.set_at)
Before(r1, r2) ==
    r1.score > r2.score \/ (r1.score = r2.score /\ r1.set_at < r2.set_at)

\* Every ordering of the rows S the ORDER BY allows (rows equal in score and
\* set_at come in either order).
OrderBy(S) ==
    {s \in [1..Cardinality(S) -> S] :
        /\ \A i, j \in 1..Cardinality(S) : i # j => s[i] # s[j]
        /\ \A i, j \in 1..Cardinality(S) : i < j => ~Before(s[j], s[i])}

\* LIMIT ?
Limit(s, limit) == SubSeq(s, 1, Min(limit, Len(s)))

\* SELECT nick, score, set_at: the columns returned.
Columns(r) == [nick |-> r.nick, score |-> r.score, set_at |-> r.set_at]

\* WHERE channel = ? AND set_at >= ?
WhereChannel_strict(t, channel, since) ==
    {r \in t : r.channel = channel /\ r.set_at > since}
WhereChannel(t, channel, since) ==
    {r \in t : r.channel = channel /\ r.set_at >= since}

\* _get_channel_highscores(bot, channel, limit), with now = int(time.time()):
\* the table afterwards and the result lists the query may return.
_get_channel_highscores(t, channel, limit, now) ==
    LET purged == _purge_expired(t, now)
        rows == WhereChannel(purged, channel, now - WEEK_SECONDS)
    IN  [tab |-> purged,
         rets |-> {[i \in 1..Len(Limit(s, limit)) |-> Columns(Limit(s, limit)[i])] :
                      s \in OrderBy(rows)}]

\* The test of my_highscore that reports "no weekly high score yet".
Absent(row, now) == row = None \/ row[1].set_at < now - WEEK_SECONDS

\* my_highscore(bot, trigger): the table afterwards and the (score, set_at)
\* reported, or None.  Outside a channel it returns before touching the table.
my_highscore(t, sender, nick, now) ==
    IF ~StartsWithHash(sender)
    THEN [tab |-> t, ret |-> None]
    ELSE LET channel == Lower(sender)
             purged == _purge_expired(t, now)
             row == SelectRow(purged, channel, nick)
         IN  [tab |-> purged,
              ret |-> IF Absent(row, now)
                      THEN None
                      ELSE Some([score |-> row[1].score, set_at |-> row[1].set_at])]

(***************************************************************************)
(* DicePouch.  A dict is a function from its keys to their values.         *)
(***************************************************************************)
EmptyDict == << >>

\* d[k] = v
SetItem(d, k, v) == [x \in (DOMAIN d) \cup {k} |-> IF x = k THEN v ELSE d[x]]

\* d.get(k, 0)
GetOrZero(d, k) == IF k \in DOMAIN d THEN d[k] ELSE 0

\* The body of roll_dice's loop: count = self.dice.setdefault(number, 0);
\* self.dice[number] = count + 1
AddDie(d, number) == SetItem(d, number, GetOrZero(d, number) + 1)

\* roll_dice: every dict the loop can leave in self.dice after num draws of
\* random.randint(1, type).
RECURSIVE roll_dice(_, _)
roll_dice(num, type) ==
    IF num <= 0
    THEN {EmptyDict}
    ELSE {AddDie(d, number) : d \in roll_dice(num - 1, type), number \in 1..type}

\* DicePouch(dice_count, dice_type): every pouch the constructor can return.
DicePouch(dice_count, dice_type) ==
    {[num |-> dice_count, type |-> dice_type, dice |-> d, dropped |-> EmptyDict] :
        d \in roll_dice(dice_count, dice_type)}

RECURSIVE SortedFaces_descending(_)
SortedFaces_descending(faces) ==
    IF faces = {}
    THEN << >>
    ELSE LET highest == CHOOSE i \in faces : \A j \in faces : i >= j
         IN  <<highest>> \o SortedFaces_descending(faces \ {highest})

\* sorted(self.dice.items(), key=operator.itemgetter(0)): the faces, ascending.
RECURSIVE SortedFaces(_)
SortedFaces(faces) ==
    IF faces = {}
    THEN << >>
    ELSE LET lowest == CHOOSE i \in faces : \A j \in faces : i <= j
         IN  <<lowest>> \o SortedFaces(faces \ {lowest})

\* What drop_lowest records in self.dropped for face i.
RecordDropped_adding(dropped, i, n) == SetItem(dropped, i, GetOrZero(dropped, i) + n)
RecordDropped(dropped, i, n) == SetItem(dropped, i, n)

DropLoop_first_group(sorted_x, dice, dropped, n) ==
    IF sorted_x = << >> \/ n = 0
    THEN [dice |-> dice, dropped |-> dropped]
    ELSE LET i == Head(sorted_x)
             taken == IF n < dice[i] THEN n ELSE dice[i]
         IN  [dice |-> SetItem(dice, i, dice[i] - taken),
              dropped |-> RecordDropped(dropped, i, taken)]

\* The first loop of drop_lowest over sorted_x, from the state (dice, dropped, n).
RECURSIVE DropLoop(_, _, _, _)
DropLoop(sorted_x, dice, dropped, n) ==
    IF sorted_x = << >>
    THEN [dice |-> dice, dropped |-> dropped]
    ELSE LET i == Head(sorted_x)
             count == dice[i]
         IN  IF n = 0
             THEN [dice |-> dice, dropped |-> dropped]
             ELSE IF n < count
             THEN [dice |-> SetItem(dice, i, count - n),
                   dropped |-> RecordDropped(dropped, i, n)]
             ELSE DropLoop(Tail(sorted_x), SetItem(dice, i, 0),
                           RecordDropped(dropped, i, count), n - count)

DeleteDrained_none(dice, dropped) == dice

\* The second loop of drop_lowest: the faces in dropped whose dice count is 0
\* are deleted from dice.
DeleteDrained(dice, dropped) ==
    LET keep == {i \in DOMAIN dice : ~(i \in DOMAIN dropped /\ dice[i] = 0)}
    IN  [i \in keep |-> dice[i]]

\* drop_lowest(n) on pouch p: the pouch afterwards.
drop_lowest(p, n) ==
    LET after == DropLoop(SortedFaces(DOMAIN p.dice), p.dice, p.dropped, n)
    IN  [p EXCEPT !.dice = DeleteDrained(after.dice, after.dropped),
                  !.dropped = after.dropped]

\* get_sum: the sum of face * times over self.dice.
RECURSIVE SumFaces(_, _)
SumFaces(d, faces) ==
    IF faces = {}
    THEN 0
    ELSE LET face == CHOOSE i \in faces : TRUE
         IN  face * d[face] + SumFaces(d, faces \ {face})

get_sum(p) == SumFaces(p.dice, DOMAIN p.dice)

\* get_number_of_faces: len(self.dice) + len(self.dropped)
get_number_of_faces(p) == Cardinality(DOMAIN p.dice) + Cardinality(DOMAIN p.dropped)

(***************************************************************************)
(* Calls made one at a time.                                               *)
(***************************************************************************)
Call(op, channel, nick, score, limit, now, pre, ret) ==
    [op |-> op, channel |-> channel, nick |-> nick, score |-> score,
     limit |-> limit, now |-> now, pre |-> pre, ret |-> ret]

NoCall == Call("none", "", "", 0, 0, 0, {}, None)

NoThreads == [t \in Threads |-> "idle"]
Locals(channel, nick, score, now, prev_score) ==
    [channel |-> channel, nick |-> nick, score |-> score, now |-> now,
     prev_score |-> prev_score]
NoLocal == Locals("", "", 0, 0, None)
NoLocals == [t \in Threads |-> NoLocal]
Event(kind, thread, now, removed, row) ==
    [kind |-> kind, thread |-> thread, now |-> now, removed |-> removed, row |-> row]
NoEvent == Event("none", "", 0, {}, None)
NoPouch == [num |-> 0, type |-> 0, dice |-> EmptyDict, dropped |-> EmptyDict]
NoDrop == [n |-> 0, pre |-> NoPouch]

\* Nothing parsed, no command handled.
NoParse == << >>
NoRequest == << >>
NoOutcome == << >>

(***************************************************************************)
(* Text.  A str is a sequence of characters; a match object is the record  *)
(* of its three named groups, dice_num and dice_type a str each and        *)
(* drop_lowest a str or None.                                              *)
(***************************************************************************)
Digits == {"0", "1", "2", "3", "4", "5", "6", "7", "8", "9"}

DigitValue(c) ==
    CASE c = "0" -> 0 [] c = "1" -> 1 [] c = "2" -> 2 [] c = "3" -> 3
      [] c = "4" -> 4 [] c = "5" -> 5 [] c = "6" -> 6 [] c = "7" -> 7
      [] c = "8" -> 8 [] c = "9" -> 9

\* int(s) returns for an optional minus sign followed by at least one digit,
\* and raises ValueError for the other strings the groups can hold.
IsInteger(s) ==
    LET body == IF s # << >> /\ Head(s) = "-" THEN Tail(s) ELSE s
    IN  body # << >> /\ \A i \in DOMAIN body : body[i] \in Digits

RECURSIVE Decimal(_)
Decimal(s) ==
    IF s = << >>
    THEN 0
    ELSE 10 * Decimal(SubSeq(s, 1, Len(s) - 1)) + DigitValue(s[Len(s)])

int(s) == IF Head(s) = "-" THEN 0 - Decimal(Tail(s)) ELSE Decimal(s)

Match(dice_num, dice_type, drop) ==
    [dice_num |-> dice_num, dice_type |-> dice_type, drop_lowest |-> drop]

NoMatch == Match(<< >>, << >>, None)

(***************************************************************************)
(* _roll_dice: from a match object to a rolled pouch or an exception.      *)
(***************************************************************************)
\* Maximum number of dice in one roll
MAX_DICE == 1000

\* The face the k-th draw of random.randint(1, type) comes up with when the
\* draws run through `width` consecutive faces from `start` in turn.
RunFace(k, type, start, width) == ((start - 1 + (k % width)) % type) + 1

\* roll_dice: the dicts the loop leaves in self.dice after num draws that
\* come up in such runs.
roll_dice_runs(num, type) ==
    {LET faces == {RunFace(k, type, start, width) : k \in 0..(num - 1)}
     IN  [i \in faces |->
             Cardinality({k \in 0..(num - 1) : RunFace(k, type, start, width) = i})] :
        start \in 1..type, width \in 1..type}

\* DicePouch(dice_num, dice_type) as _roll_dice constructs it: every roll of
\* a pouch of at most MaxCount dice of at most MaxFaces faces, and the runs
\* of a larger one.
RolledPouches(dice_num, dice_type) ==
    IF dice_num <= MaxCount /\ dice_type <= MaxFaces
    THEN DicePouch(dice_num, dice_type)
    ELSE {[num |-> dice_num, type |-> dice_type, dice |-> d, dropped |-> EmptyDict] :
             d \in roll_dice_runs(dice_num, dice_type)}

\* How a _roll_dice call ends: it raises error(args), or it returns dice,
\* the pouch `made` by the constructor after the drop_lowest(n) call recorded
\* in drop (None when drop_lowest was not called).  made is NoPouch when the
\* call raised before it reached the constructor.
NotCalled == [how |-> "none", error |-> "", args |-> << >>,
              made |-> NoPouch, drop |-> None, dice |-> NoPouch]
Raised(error, args) == [NotCalled EXCEPT !.how = "raised", !.error = error, !.args = args]
Returned(made, drop, dice) ==
    [NotCalled EXCEPT !.how = "returned", !.made = made, !.drop = drop, !.dice = dice]

\* if dice_type <= 0
InvalidFaces(dice_type) == dice_type <= 0

\* if dice_num < 0
NegativeCount_or_zero(dice_num) == dice_num <= 0
NegativeCount(dice_num) == dice_num < 0

\* if dice_num > MAX_DICE
TooMany(dice_num) == dice_num > MAX_DICE

\* if drop >= 0
DropAccepted_positive(drop) == drop > 0
DropAccepted(drop) == drop >= 0

\* dice_num = int(dice_match.group('dice_num') or 1): the text int is given.
CountText(dice_match) ==
    IF dice_match.dice_num # << >> THEN dice_match.dice_num ELSE <<"1">>

_roll_dice(dice_match) ==
    IF ~IsInteger(CountText(dice_match))
    THEN {Raised("ValueError", << >>)}
    ELSE LET dice_num == int(CountText(dice_match))
             dice_type == int(dice_match.dice_type)
         IN  IF InvalidFaces(dice_type)
             THEN {Raised("InvalidDiceFacesError", <<dice_type>>)}
             ELSE IF NegativeCount(dice_num)
             THEN {Raised("NegativeDiceCountError", <<dice_num>>)}
             ELSE IF TooMany(dice_num)
             THEN {Raised("TooManyDiceError", <<dice_num, MAX_DICE>>)}
             ELSE IF dice_match.drop_lowest # None
             THEN LET drop == int(dice_match.drop_lowest[1])
                  IN  IF DropAccepted(drop)
                      THEN {Returned(dice, Some(drop), drop_lowest(dice, drop)) :
                               dice \in RolledPouches(dice_num, dice_type)}
                      ELSE {[Raised("UnableToDropDiceError", <<drop, dice_num>>)
                                EXCEPT !.made = dice] :
                               dice \in RolledPouches(dice_num, dice_type)}
             ELSE {Returned(dice, None, dice) :
                      dice \in RolledPouches(dice_num, dice_type)}

(***************************************************************************)
(* The strings roll makes of a pouch.  A rendering is the record of its    *)
(* form and of the terms it joins with "+", the kept ones and the ones in  *)
(* the bracketed suffix.  The code joins them in the order of the dict;    *)
(* the dicts here keep no insertion order, and the terms come by ascending *)
(* face.                                                                   *)
(***************************************************************************)
Rendering(form, kept, dropped) == [form |-> form, kept |-> kept, dropped |-> dropped]

\* [str(face)] * times
RECURSIVE Repeat(_, _)
Repeat(face, times) ==
    IF times <= 0 THEN << >> ELSE <<face>> \o Repeat(face, times - 1)

\* One str(face) for every die of the dict.
RECURSIVE SimpleTerms(_, _)
SimpleTerms(d, sorted_x) ==
    IF sorted_x = << >>
    THEN << >>
    ELSE Repeat(Head(sorted_x), d[Head(sorted_x)]) \o SimpleTerms(d, Tail(sorted_x))

\* One "%dx%d" % (times, face) for every item of the dict.
CompressedTerms(d, sorted_x) ==
    [k \in 1..Len(sorted_x) |-> <<d[sorted_x[k]], sorted_x[k]>>]

\* (2+2+2[+1+1])
get_simple_string(dp) ==
    Rendering("simple", SimpleTerms(dp.dice, SortedFaces(DOMAIN dp.dice)),
              SimpleTerms(dp.dropped, SortedFaces(DOMAIN dp.dropped)))

\* (3x2[+2x1])
get_compressed_string(dp) ==
    Rendering("compressed", CompressedTerms(dp.dice, SortedFaces(DOMAIN dp.dice)),
              CompressedTerms(dp.dropped, SortedFaces(DOMAIN dp.dropped)))

\* The pouch after one of its reading methods has run.
AfterReading_rolled_again(dp) == [dp EXCEPT !.dice = EmptyDict, !.dropped = EmptyDict]

\* get_simple_string, get_compressed_string, get_sum and get_number_of_faces
\* assign to no attribute of self and call no method that does.
AfterReading(dp) == dp

\* What the four reading methods return for a pouch.
Readings(dp) ==
    [get_sum |-> get_sum(dp),
     get_simple_string |-> get_simple_string(dp),
     get_compressed_string |-> get_compressed_string(dp),
     get_number_of_faces |-> get_number_of_faces(dp)]

\* The record of the readings of a pouch since its latest drop: the pouch
\* before the first of them, what the first and the latest returned, and
\* how many there were.
ReadRecord(of, first, got, times, after) ==
    [of |-> of, first |-> first, got |-> got, times |-> times, after |-> after]

\* "(%d)" % (dp.get_sum(),)
_get_eval_str(dp) == get_sum(dp)

_get_pretty_str_always_simple(dp) == get_simple_string(dp)

_get_pretty_str(dp) ==
    IF dp.num <= 10
    THEN get_simple_string(dp)
    ELSE IF get_number_of_faces(dp) <= 10
    THEN get_compressed_string(dp)
    ELSE Rendering("(...)", << >>, << >>)

NotRendered == << >>
Rendered(eval_str, pretty_str) == [eval_str |-> eval_str, pretty_str |-> pretty_str]

(***************************************************************************)
(* One _roll_dice call on its own, and the rendering of its pouch.         *)
(***************************************************************************)
\* What the regular expression can leave in the groups: dice_num is -?\d*,
\* dice_type and drop_lowest are -?\d+.
NumTexts == {<< >>, <<"-">>, <<"0">>, <<"2">>, <<"-", "1">>, <<"1", "0">>,
             <<"1", "1">>, <<"1", "0", "0", "0">>, <<"1", "0", "0", "1">>}
TypeTexts == {<<"0">>, <<"-", "3">>, <<"2">>, <<"1", "1">>}
DropTexts == {None, Some(<<"0">>), Some(<<"1">>), Some(<<"3">>), Some(<<"-", "1">>)}

Matches == {Match(n, t, d) : n \in NumTexts, t \in TypeTexts, d \in DropTexts}

\* No roll command is being handled.
NoRollCommand ==
    /\ text = << >>
    /\ parsed = NoParse
    /\ expr = NoMatch
    /\ rolled = NotCalled
    /\ rendered = NotRendered
    /\ request = NoRequest
    /\ outcome = NoOutcome

\* The store and the pouch under test are left alone.
StoreIdle ==
    /\ tab = setup
    /\ clock = 0
    /\ last = NoCall
    /\ pc = NoThreads
    /\ loc = NoLocals
    /\ ev = NoEvent
    /\ pouch = NoPouch
    /\ drops = 0
    /\ lastDrop = NoDrop

RollDice ==
    /\ rolled = NotCalled
    /\ \E r \in _roll_dice(expr) : rolled' = r
    /\ UNCHANGED <<tab, clock, last, pc, loc, ev, pouch, drops, lastDrop,
                   text, parsed, expr, rendered, request, outcome>>

\* roll renders the pouch _roll_dice returned, once for eval_str and once
\* for pretty_str.
Render ==
    /\ rolled.how = "returned"
    /\ rendered = NotRendered
    /\ rendered' = Rendered(_get_eval_str(rolled.dice), _get_pretty_str(rolled.dice))
    /\ UNCHANGED <<tab, clock, last, pc, loc, ev, pouch, drops, lastDrop,
                   text, parsed, expr, rolled, request, outcome>>

InitRollDice ==
    /\ StoreIdle
    /\ text = << >>
    /\ parsed = NoParse
    /\ expr \in Matches
    /\ rolled = NotCalled
    /\ rendered = NotRendered
    /\ request = NoRequest
    /\ outcome = NoOutcome

NextRollDice == RollDice \/ Render

SpecRollDice == InitRollDice /\ [][NextRollDice]_vars

\* Time passes between calls.
Tick ==
    /\ Elapsed(clock) < MaxTicks
    /\ \E d \in Deltas : clock' = clock + d
    /\ UNCHANGED <<tab, last, pc, loc, ev, pouch, drops, lastDrop, pipeVars>>

Update ==
    \E m \in Members, score \in Scores :
        LET channel == m[1]
            nick == m[2]
            r == _update_highscore(tab, channel, nick, score, clock)
        IN  /\ tab' = r.tab
            /\ last' = Call("update", channel, nick, score, 0, clock, tab, r.ret)
            /\ UNCHANGED <<clock, pc, loc, ev, pouch, drops, lastDrop, pipeVars>>

PurgeExpired ==
    /\ tab' = _purge_expired(tab, clock)
    /\ last' = Call("purge", "", "", 0, 0, clock, tab, None)
    /\ UNCHANGED <<clock, pc, loc, ev, pouch, drops, lastDrop, pipeVars>>

TopScores ==
    \E channel \in Channels, limit \in Limits :
        LET r == _get_channel_highscores(tab, channel, limit, clock)
        IN  /\ tab' = r.tab
            /\ \E ret \in r.rets :
                   last' = Call("top", channel, "", 0, limit, clock, tab, ret)
            /\ UNCHANGED <<clock, pc, loc, ev, pouch, drops, lastDrop, pipeVars>>

Lookup ==
    \E m \in Triggers :
        LET sender == m[1]
            nick == m[2]
            r == my_highscore(tab, sender, nick, clock)
        IN  /\ tab' = r.tab
            /\ last' = Call("lookup", Lower(sender), nick, 0, 0, clock, tab, r.ret)
            /\ UNCHANGED <<clock, pc, loc, ev, pouch, drops, lastDrop, pipeVars>>

Init ==
    /\ tab = setup
    /\ clock = 0
    /\ last = NoCall
    /\ pc = NoThreads
    /\ loc = NoLocals
    /\ ev = NoEvent
    /\ pouch = NoPouch
    /\ drops = 0
    /\ lastDrop = NoDrop
    /\ NoRollCommand

Next == Tick \/ Update \/ PurgeExpired \/ TopScores \/ Lookup

Spec == Init /\ [][Next]_vars

(***************************************************************************)
(* Calls made by threads, one SQL statement at a time: the bot runs each   *)
(* command in a thread of its own, and every bot.db.execute is a statement *)
(* of its own against the shared table.                                    *)
(***************************************************************************)
\* The key the threads contend for.
ThreadMembers == {<<"#a", "amy">>}

\* Time passes between statements.
ThreadTick ==
    /\ Elapsed(clock) < MaxThreadTicks
    /\ \E d \in Deltas : clock' = clock + d
    /\ UNCHANGED <<tab, last, pc, loc, ev, pouch, drops, lastDrop, pipeVars>>

Goto(t, label) == pc' = [pc EXCEPT ![t] = label]

\* now = int(time.time()) at the start of _update_highscore (from roll).
StartUpdate(t) ==
    /\ pc[t] = "idle"
    /\ \E m \in ThreadMembers, score \in Scores :
           loc' = [loc EXCEPT ![t] = Locals(m[1], m[2], score, clock, None)]
    /\ Goto(t, "update_purge")
    /\ UNCHANGED <<tab, clock, last, ev, pouch, drops, lastDrop, pipeVars>>

\* now = int(time.time()) in my_highscore, called in a channel.
StartLookup(t) ==
    /\ pc[t] = "idle"
    /\ loc' = [loc EXCEPT ![t] = Locals("", "", 0, clock, None)]
    /\ Goto(t, "lookup_purge")
    /\ UNCHANGED <<tab, clock, last, ev, pouch, drops, lastDrop, pipeVars>>

\* now = int(time.time()) in _get_channel_highscores.
StartTop(t) ==
    /\ pc[t] = "idle"
    /\ loc' = [loc EXCEPT ![t] = Locals("", "", 0, clock, None)]
    /\ Goto(t, "top_purge")
    /\ UNCHANGED <<tab, clock, last, ev, pouch, drops, lastDrop, pipeVars>>

\* _purge_expired(bot, now), the first statement of each of the three.
PurgeStep(t) ==
    /\ pc[t] \in {"update_purge", "lookup_purge", "top_purge"}
    /\ tab' = _purge_expired(tab, loc[t].now)
    /\ ev' = Event("purge", t, loc[t].now, tab \ tab', None)
    /\ Goto(t, CASE pc[t] = "update_purge" -> "update_select"
                 [] pc[t] = "lookup_purge" -> "lookup_select"
                 [] pc[t] = "top_purge" -> "top_select")
    /\ UNCHANGED <<clock, last, loc, pouch, drops, lastDrop, pipeVars>>

\* The SELECT of _update_highscore and the computation of prev_score.
UpdateSelect(t) ==
    /\ pc[t] = "update_select"
    /\ LET row == SelectRow(tab, loc[t].channel, loc[t].nick)
       IN  loc' = [loc EXCEPT ![t].prev_score = PrevScore(row, loc[t].now)]
    /\ Goto(t, "update_replace")
    /\ UNCHANGED <<tab, clock, last, ev, pouch, drops, lastDrop, pipeVars>>

\* The conditional REPLACE of _update_highscore, and its return.
UpdateReplace(t) ==
    /\ pc[t] = "update_replace"
    /\ IF ShouldWrite(loc[t].prev_score, loc[t].score)
       THEN LET row == Row(loc[t].channel, loc[t].nick, loc[t].score, loc[t].now)
            IN  /\ tab' = ReplaceInto(tab, row)
                /\ ev' = Event("replace", t, loc[t].now, tab \ tab', Some(row))
       ELSE UNCHANGED <<tab, ev>>
    /\ loc' = [loc EXCEPT ![t] = NoLocal]
    /\ Goto(t, "idle")
    /\ UNCHANGED <<clock, last, pouch, drops, lastDrop, pipeVars>>

\* The SELECT of my_highscore or of _get_channel_highscores, and the return.
ReadSelect(t) ==
    /\ pc[t] \in {"lookup_select", "top_select"}
    /\ loc' = [loc EXCEPT ![t] = NoLocal]
    /\ Goto(t, "idle")
    /\ UNCHANGED <<tab, clock, last, ev, pouch, drops, lastDrop, pipeVars>>

NextThreads ==
    \/ ThreadTick
    \/ \E t \in Threads :
           \/ StartUpdate(t)
           \/ StartLookup(t)
           \/ StartTop(t)
           \/ PurgeStep(t)
           \/ UpdateSelect(t)
           \/ UpdateReplace(t)
           \/ ReadSelect(t)

SpecThreads == Init /\ [][NextThreads]_vars

(***************************************************************************)
(* A pouch on its own: rolled at construction, then dropped from.          *)
(***************************************************************************)
Counts == 0..MaxCount
Faces == 1..MaxFaces
DropCounts == 0..(MaxCount + 1)

DropLowest ==
    /\ drops < MaxDrops
    /\ \E n \in DropCounts :
           /\ pouch' = drop_lowest(pouch, n)
           /\ lastDrop' = [n |-> n, pre |-> pouch]
    /\ drops' = drops + 1
    /\ UNCHANGED <<tab, clock, last, pc, loc, ev, pipeVars>>

InitPouch ==
    /\ tab = setup
    /\ clock = 0
    /\ last = NoCall
    /\ pc = NoThreads
    /\ loc = NoLocals
    /\ ev = NoEvent
    /\ \E dice_count \in Counts, dice_type \in Faces :
           pouch \in DicePouch(dice_count, dice_type)
    /\ drops = 0
    /\ lastDrop = NoDrop
    /\ NoRollCommand

\* The pouch is read again by its four reading methods.
ReadPouch ==
    LET again == rendered # NotRendered /\ rendered.after = drops
        got == Readings(pouch)
    IN  /\ again => rendered.times < MaxReads
        /\ pouch' = AfterReading(pouch)
        /\ rendered' = IF again
                        THEN ReadRecord(rendered.of, rendered.first, got,
                                  rendered.times + 1, drops)
                        ELSE ReadRecord(pouch, got, got, 1, drops)
        /\ UNCHANGED <<tab, clock, last, pc, loc, ev, drops, lastDrop,
                       text, parsed, expr, rolled, request, outcome>>

NextPouch == DropLowest \/ ReadPouch

SpecPouch == InitPouch /\ [][NextPouch]_vars

(***************************************************************************)
(* roll, up to the rolling: the argument text is cut at the comment,       *)
(* stripped, and searched for dice expressions with dice_regexp.           *)
(***************************************************************************)
Whitespace == {" "}

\* s.split("#", 1)[1], the rest after the first "#".
AfterHash(s) ==
    LET at == {k \in DOMAIN s : s[k] = "#"}
    IN  IF at = {}
        THEN s
        ELSE SubSeq(s, (CHOOSE k \in at : \A j \in at : k <= j) + 1, Len(s))

\* s.split("#", 1)[0]
BeforeHash(s) ==
    LET at == {k \in DOMAIN s : s[k] = "#"}
    IN  IF at = {}
        THEN s
        ELSE SubSeq(s, 1, (CHOOSE k \in at : \A j \in at : k <= j) - 1)

\* s.strip()
strip(s) ==
    LET inked == {k \in DOMAIN s : s[k] \notin Whitespace}
    IN  IF inked = {}
        THEN << >>
        ELSE SubSeq(s, CHOOSE k \in inked : \A j \in inked : k <= j,
                       CHOOSE k \in inked : \A j \in inked : k >= j)

Escape_nothing(s) == s

\* s.replace("%", "%%")
RECURSIVE Escape(_)
Escape(s) ==
    IF s = << >>
    THEN << >>
    ELSE (IF Head(s) = "%" THEN <<"%", "%">> ELSE <<Head(s)>>) \o Escape(Tail(s))

\* \d* from position i of s: the position after the digits.
RECURSIVE SkipDigits(_, _)
SkipDigits(s, i) ==
    IF i <= Len(s) /\ s[i] \in Digits THEN SkipDigits(s, i + 1) ELSE i

\* -? from position i of s: the position after the sign, if there is one.
SkipMinus(s, i) == IF i <= Len(s) /\ s[i] = "-" THEN i + 1 ELSE i

\* A match of dice_regexp: the span [start, end) of group 0 and the named groups.
Found(start, end, groups) == [start |-> start, end |-> end, groups |-> groups]
NotFound == Found(0, 0, NoMatch)

\* (v(?P<drop_lowest>-?\d+))? from position i of s: the position after it and
\* the group, None when the optional part does not match.
DropAt(s, i) ==
    IF i <= Len(s) /\ s[i] \in {"v", "V"}
    THEN LET from == SkipMinus(s, i + 1)
             to == SkipDigits(s, from)
         IN  IF to > from
             THEN [end |-> to, drop_lowest |-> Some(SubSeq(s, i + 1, to - 1))]
             ELSE [end |-> i, drop_lowest |-> None]
    ELSE [end |-> i, drop_lowest |-> None]

\* dice_regexp matched at position i of s (re.IGNORECASE | re.VERBOSE), or
\* NotFound.  Each part is greedy, and giving a sign or a digit back never
\* turns a failure into a match.
MatchAt(s, i) ==
    LET d == SkipDigits(s, SkipMinus(s, i))
    IN  IF d <= Len(s) /\ s[d] \in {"d", "D"}
        THEN LET from == SkipMinus(s, d + 1)
                 to == SkipDigits(s, from)
             IN  IF to > from
                 THEN LET v == DropAt(s, to)
                      IN  Found(i, v.end,
                                Match(SubSeq(s, i, d - 1), SubSeq(s, d + 1, to - 1),
                                      v.drop_lowest))
                 ELSE NotFound
        ELSE NotFound

\* re.finditer(dice_regexp, s) from position pos: the matches, leftmost
\* first and not overlapping.
RECURSIVE finditer(_, _)
finditer(s, pos) ==
    IF pos > Len(s)
    THEN << >>
    ELSE LET found == MatchAt(s, pos)
         IN  IF found = NotFound
             THEN finditer(s, pos + 1)
             ELSE <<found>> \o finditer(s, found.end)

\* re.sub(dice_regexp, "%s", s) from position pos.
RECURSIVE sub(_, _)
sub(s, pos) ==
    IF pos > Len(s)
    THEN << >>
    ELSE LET found == MatchAt(s, pos)
         IN  IF found = NotFound
             THEN <<s[pos]>> \o sub(s, pos + 1)
             ELSE <<"%", "s">> \o sub(s, found.end)

arg_str_raw(group2) == strip(BeforeHash(group2))

arg_str(group2) == sub(Escape(arg_str_raw(group2)), 1)

dice_expressions(group2) == finditer(arg_str_raw(group2), 1)

\* template % values, for a template of "%s", "%%" and other characters and
\* values that are strings: the string, or the exception for a stray "%",
\* too few values or too many.
RECURSIVE Format(_, _)
Format(template, values) ==
    IF template = << >>
    THEN [ok |-> values = << >>, str |-> << >>]
    ELSE IF Head(template) # "%"
    THEN LET rest == Format(Tail(template), values)
         IN  [ok |-> rest.ok, str |-> <<Head(template)>> \o rest.str]
    ELSE IF Len(template) >= 2 /\ template[2] = "%"
    THEN LET rest == Format(SubSeq(template, 3, Len(template)), values)
         IN  [ok |-> rest.ok, str |-> <<"%">> \o rest.str]
    ELSE IF Len(template) >= 2 /\ template[2] = "s" /\ values # << >>
    THEN LET rest == Format(SubSeq(template, 3, Len(template)), Tail(values))
         IN  [ok |-> rest.ok, str |-> Head(values) \o rest.str]
    ELSE [ok |-> FALSE, str |-> << >>]

\* What roll has in hand when it gets to the rolling, or the reply it
\* returned with before.
Parsed(reply, raw, template, expressions) ==
    [reply |-> reply, arg_str_raw |-> raw, arg_str |-> template,
     dice_expressions |-> expressions]

ParseArgs(group2) ==
    IF group2 = << >>
    THEN Parsed("No dice to roll.", << >>, << >>, << >>)
    ELSE IF dice_expressions(group2) = << >>
    THEN Parsed("I couldn't find any valid dice expressions.",
                arg_str_raw(group2), arg_str(group2), << >>)
    ELSE Parsed("", arg_str_raw(group2), arg_str(group2), dice_expressions(group2))

(***************************************************************************)
(* The parsing on its own, for every short text and two longer ones.       *)
(***************************************************************************)
Alphabet == {"2", "d", "D", "v", "-", "+", "#", "%", " "}

Examples == {<<"2", "d", "6", "+", "3">>, <<"d", "2", "0">>}

Texts == Examples \cup UNION {[1..k -> Alphabet] : k \in 0..MaxLen}

Parse ==
    /\ parsed = NoParse
    /\ parsed' = ParseArgs(text)
    /\ UNCHANGED <<tab, clock, last, pc, loc, ev, pouch, drops, lastDrop,
                   text, expr, rolled, rendered, request, outcome>>

InitParse ==
    /\ StoreIdle
    /\ text \in Texts
    /\ parsed = NoParse
    /\ expr = NoMatch
    /\ rolled = NotCalled
    /\ rendered = NotRendered
    /\ request = NoRequest
    /\ outcome = NoOutcome

NextParse == Parse

SpecParse == InitParse /\ [][NextParse]_vars

(***************************************************************************)
(* roll, the whole command.  A command is given by what the parsing makes  *)
(* of its text (whether there is any text, and the dice expressions found  *)
(* in it), by the arithmetic around the dice expressions, and by its       *)
(* sender and nick.                                                        *)
(***************************************************************************)
Command(group2, expressions, arithmetic, sender, nick) ==
    [group2 |-> group2, dice_expressions |-> expressions, arithmetic |-> arithmetic,
     sender |-> sender, nick |-> nick]

\* bot.reply(...) or bot.say(...)
Message(kind, args) == [kind |-> kind, args |-> args]

\* dice = [_roll_dice(dice_expr) for dice_expr in dice_expressions]: the
\* list of pouches, or the exception of the first call that raises.
RECURSIVE RollEach(_)
RollEach(expressions) ==
    IF expressions = << >>
    THEN {[how |-> "returned", error |-> "", args |-> << >>, dice |-> << >>]}
    ELSE UNION {IF r.how = "raised"
                THEN {[how |-> "raised", error |-> r.error, args |-> r.args, dice |-> << >>]}
                ELSE {IF rest.how = "raised"
                      THEN rest
                      ELSE [rest EXCEPT !.dice = <<r.dice>> \o rest.dice] :
                         rest \in RollEach(Tail(expressions))} :
                   r \in _roll_dice(Head(expressions))}

\* The subclasses of DiceError.
DiceErrors == {"InvalidDiceFacesError", "NegativeDiceCountError",
               "TooManyDiceError", "UnableToDropDiceError"}

\* bot.reply(_get_error_message(err))
_get_error_message(error, args) == Message(error, args)

\* The sum of the numbers in sequence s.
RECURSIVE SumSeq(_)
SumSeq(s) == IF s = << >> THEN 0 ELSE Head(s) + SumSeq(Tail(s))

\* eval_equation(eval_str), of sopel.tools.calculation: for dice joined by
\* "+" the sum of the substituted values; for arithmetic that does not parse
\* SyntaxError; for a result out of range ValueError; and for a result that
\* "%d" cannot format, that result.
eval_equation(arithmetic, eval_str) ==
    CASE arithmetic = "sum" ->
             [raised |-> "", result |-> SumSeq(eval_str), formats |-> TRUE]
      [] arithmetic = "malformed" ->
             [raised |-> "SyntaxError", result |-> 0, formats |-> FALSE]
      [] arithmetic = "too big" ->
             [raised |-> "ValueError", result |-> 0, formats |-> FALSE]
      [] arithmetic = "undisplayable" ->
             [raised |-> "", result |-> 0, formats |-> FALSE]

\* The message after _update_highscore returned prev, if any.
FollowUp_or_equal(prev, result, nick) ==
    IF prev = None
    THEN <<Message("New weekly high score", <<nick, result>>)>>
    ELSE IF result >= prev[1]
    THEN <<Message("beats their previous weekly high", <<nick, prev[1], result>>)>>
    ELSE << >>

FollowUp(prev, result, nick) ==
    IF prev = None
    THEN <<Message("New weekly high score", <<nick, result>>)>>
    ELSE IF result > prev[1]
    THEN <<Message("beats their previous weekly high", <<nick, prev[1], result>>)>>
    ELSE << >>

\* How a roll command ends: the messages sent, the exception that left the
\* handler (if any), and whether eval_equation was called.
Ended(t, said, raised, evaluated) ==
    [tab |-> t, said |-> said, raised |-> raised, evaluated |-> evaluated]

\* roll from the rolling on: r is what the rolling gave.
AfterRolling(t, trigger, now, r) ==
    IF r.how = "raised"
    THEN IF r.error \in DiceErrors
         THEN Ended(t, <<_get_error_message(r.error, r.args)>>, "", FALSE)
         ELSE Ended(t, << >>, r.error, FALSE)
    ELSE LET eval_str == [k \in DOMAIN r.dice |-> _get_eval_str(r.dice[k])]
             pretty_str == [k \in DOMAIN r.dice |-> _get_pretty_str(r.dice[k])]
             value == eval_equation(trigger.arithmetic, eval_str)
         IN  IF value.raised = "ValueError"
             THEN Ended(t, <<Message("very big", <<pretty_str>>)>>, "", TRUE)
             ELSE IF value.raised # ""
             THEN Ended(t, <<Message("I don't know how to process that.", << >>)>>, "", TRUE)
             ELSE IF ~value.formats
             THEN Ended(t, <<Message("I can't display a number that big.", << >>)>>, "", TRUE)
             ELSE LET line == Message("result", <<pretty_str, value.result>>)
                  IN  IF StartsWithHash(trigger.sender)
                      THEN LET u == _update_highscore(t, Lower(trigger.sender),
                                                      trigger.nick, value.result, now)
                           IN  Ended(u.tab,
                                     <<line>> \o FollowUp(u.ret, value.result, trigger.nick),
                                     "", TRUE)
                      ELSE Ended(t, <<line>>, "", TRUE)

\* roll(bot, trigger) on table t at time now: every way it can end.
roll(t, trigger, now) ==
    IF trigger.group2 = "empty"
    THEN {Ended(t, <<Message("No dice to roll.", << >>)>>, "", FALSE)}
    ELSE IF trigger.dice_expressions = << >>
    THEN {Ended(t, <<Message("I couldn't find any valid dice expressions.", << >>)>>,
                "", FALSE)}
    ELSE {AfterRolling(t, trigger, now, r) : r \in RollEach(trigger.dice_expressions)}

(***************************************************************************)
(* Roll commands, one at a time, a week and a second going by between      *)
(* some of them.                                                           *)
(***************************************************************************)
\* d2, d0, -1d2 and -d2
RollMatches == {Match(<< >>, <<"2">>, None), Match(<< >>, <<"0">>, None),
                Match(<<"-", "1">>, <<"2">>, None), Match(<<"-">>, <<"2">>, None)}

\* In a channel named in upper case, and in a private message.
RollTriggers == {<<"#A", "amy">>, <<"amy", "amy">>}

Commands ==
    {Command("text", es, "sum", tr[1], tr[2]) :
        es \in UNION {[1..k -> RollMatches] : k \in 0..MaxExprs}, tr \in RollTriggers}
    \cup {Command("text", <<Match(<< >>, <<"2">>, None)>>, a, tr[1], tr[2]) :
             a \in {"malformed", "too big", "undisplayable"}, tr \in RollTriggers}
    \cup {Command("empty", << >>, "sum", tr[1], tr[2]) : tr \in RollTriggers}

\* The command handled, with the table and the time it started from.
Handled(end, pre, now) ==
    [said |-> end.said, raised |-> end.raised, evaluated |-> end.evaluated,
     pre |-> pre, now |-> now]

Roll ==
    \E trigger \in Commands :
        \E end \in roll(tab, trigger, clock) :
            /\ tab' = end.tab
            /\ request' = trigger
            /\ outcome' = Handled(end, tab, clock)
            /\ UNCHANGED <<clock, last, pc, loc, ev, pouch, drops, lastDrop,
                           text, parsed, expr, rolled, rendered>>

\* Enough time passes for every stored score to expire.
RollTick ==
    /\ clock \div (WEEK_SECONDS + 1) < MaxRollTicks
    /\ clock' = clock + WEEK_SECONDS + 1
    /\ UNCHANGED <<tab, last, pc, loc, ev, pouch, drops, lastDrop, pipeVars>>

NextRoll == Roll \/ RollTick

SpecRoll == Init /\ [][NextRoll]_vars

(***************************************************************************)
(* Properties of the high-score store, calls made one at a time (Spec).    *)
(***************************************************************************)
SameKey(r1, r2) == r1.channel = r2.channel /\ r1.nick = r2.nick

\* The rows of table t under the key of the last call.
KeyRows(t) == {r \in t : r.channel = last.channel /\ r.nick = last.nick}

\* An entry set at set_at counts at now: section 4.4's setAt >= now - 7d.
IsValid(set_at, now) == now - set_at <= WEEK_SECONDS

\* An entry set at set_at counts at now: section 3's now - setAt < 7 days.
StrictValid(set_at, now) == now - set_at < WEEK_SECONDS

Max(a, b) == IF a >= b THEN a ELSE b

Range(s) == {s[i] : i \in DOMAIN s}

\* C1: update returns the previous valid score of (room, user), or None when
\* there is no row or the row is expired; when the existing valid score is
\* >= score nothing is written (score and setAt stay), otherwise the row
\* becomes (score, setAt = now); the stored score afterwards is
\* max(previous valid score, score).
Thm_C1_UpdateContract ==
    last.op = "update" =>
        LET old == {r \in KeyRows(last.pre) : IsValid(r.set_at, last.now)}
            new == KeyRows(tab)
        IN  /\ old = {} => last.ret = None
            /\ \A r \in old : last.ret = Some(r.score)
            /\ \A r \in old : r.score >= last.score => new = {r}
            /\ (old = {} \/ \E r \in old : r.score < last.score) =>
                   new = {Row(last.channel, last.nick, last.score, last.now)}
            /\ new # {}
            /\ \A n \in new : \A r \in old : n.score = Max(r.score, last.score)
            /\ \A n \in new : old = {} => n.score = last.score

\* An update found a valid score above the submitted one and wrote nothing.
Wit_C1_NoWrite ==
    /\ last.op = "update"
    /\ last.ret # None
    /\ last.ret[1] > last.score
    /\ KeyRows(tab) = KeyRows(last.pre)

\* C2: over any sequence of calls with non-decreasing now, the stored score
\* of an entry never decreases while the entry is valid: in every step a
\* valid row stays as it is or is replaced by a row of strictly higher score.
Thm_C2_Ratchet ==
    [][\A r \in tab : IsValid(r.set_at, clock) =>
          \E n \in tab' : SameKey(n, r) /\ (n = r \/ n.score > r.score)]_vars

\* An update replaced a valid score by a strictly higher one.
Wit_C2_Raised ==
    /\ last.op = "update"
    /\ last.ret # None
    /\ last.score > last.ret[1]
    /\ \E n \in tab : SameKey(n, last) /\ n.score = last.score

\* What it means for the four operations to treat an entry as valid exactly
\* when Valid(setAt, now) holds: update reports a previous score, lookup
\* reports the row, topScores lists the row (the limit allowing) and
\* purgeExpired keeps the row, exactly for the valid rows.
TreatsAsValid(Valid(_, _)) ==
    /\ last.op = "update" =>
           /\ \A r \in KeyRows(last.pre) :
                  Valid(r.set_at, last.now) <=> last.ret = Some(r.score)
           /\ last.ret # None => KeyRows(last.pre) # {}
    /\ last.op = "lookup" =>
           /\ \A r \in KeyRows(last.pre) :
                  Valid(r.set_at, last.now) <=>
                      last.ret = Some([score |-> r.score, set_at |-> r.set_at])
           /\ last.ret # None => KeyRows(last.pre) # {}
    /\ last.op = "top" =>
           \A r \in last.pre : r.channel = last.channel =>
               /\ Columns(r) \in Range(last.ret) => Valid(r.set_at, last.now)
               /\ (Valid(r.set_at, last.now) /\ Len(last.ret) < last.limit) =>
                      Columns(r) \in Range(last.ret)
    /\ last.op = "purge" =>
           \A r \in last.pre : Valid(r.set_at, last.now) <=> r \in tab

\* C5 as stated: update, lookup, topScores and purgeExpired treat an entry
\* as valid iff now - setAt is strictly less than 7 days.
Cex_C5_StrictValidity == TreatsAsValid(StrictValid)

\* C5 as amended: update, lookup, topScores and purgeExpired treat an entry
\* as valid iff now - setAt is at most 7 days (setAt >= now - 7d).
Thm_C5_Validity == TreatsAsValid(IsValid)

\* A lookup reported a row that was exactly 7 days old.
Wit_C5_Boundary ==
    /\ last.op = "lookup"
    /\ last.ret # None
    /\ last.now - last.ret[1].set_at = WEEK_SECONDS

\* C6: an entry set at T is, for every now >= T + 7*86400 + 1, absent for
\* lookup, not listed by topScores and gone from the table after
\* purgeExpired(now); lookup returns the row whenever it exists with
\* setAt >= now - 7d.
Thm_C6_Expiry ==
    /\ last.op = "lookup" =>
           \A r \in KeyRows(last.pre) :
               /\ last.now >= r.set_at + 7 * 86400 + 1 => last.ret = None
               /\ r.set_at >= last.now - 7 * 86400 =>
                      last.ret = Some([score |-> r.score, set_at |-> r.set_at])
    /\ last.op = "top" =>
           \A r \in last.pre :
               (r.channel = last.channel /\ last.now >= r.set_at + 7 * 86400 + 1)
                   => Columns(r) \notin Range(last.ret)
    /\ last.op = "purge" =>
           \A r \in last.pre :
               last.now >= r.set_at + 7 * 86400 + 1 => r \notin tab

\* A lookup found the caller's row expired and reported none.
Wit_C6_Expired ==
    /\ last.op = "lookup"
    /\ last.ret = None
    /\ \E r \in KeyRows(last.pre) : last.now >= r.set_at + 7 * 86400 + 1

\* C7: purgeExpired(now) deletes exactly the rows with setAt < now - 7d and
\* leaves every other row unchanged; calling it again with the same now
\* changes nothing more.
Thm_C7_PurgeExact ==
    last.op = "purge" =>
        /\ \A r \in last.pre : r.set_at < last.now - 7 * 86400 => r \notin tab
        /\ \A r \in last.pre : ~(r.set_at < last.now - 7 * 86400) => r \in tab
        /\ tab \subseteq last.pre
        /\ _purge_expired(tab, last.now) = tab

\* A purge deleted some rows and kept a row that was exactly 7 days old.
Wit_C7_Purged ==
    /\ last.op = "purge"
    /\ tab # last.pre
    /\ \E r \in tab : r.set_at = last.now - 7 * 86400

\* C8: topScores returns at most limit rows, each a valid row of the room
\* asked for, ordered by score descending and, on equal scores, by setAt
\* ascending; no valid row of the room that is left out ranks above a
\* returned row.
Thm_C8_TopScores ==
    last.op = "top" =>
        LET ret == last.ret
            valid == {r \in last.pre : r.channel = last.channel
                                       /\ IsValid(r.set_at, last.now)}
        IN  /\ Len(ret) <= last.limit
            /\ \A i \in DOMAIN ret : \E r \in valid : Columns(r) = ret[i]
            /\ \A i, j \in DOMAIN ret : i < j =>
                   \/ ret[i].score > ret[j].score
                   \/ ret[i].score = ret[j].score /\ ret[i].set_at <= ret[j].set_at
            /\ \A r \in valid : Columns(r) \notin Range(ret) =>
                   \A i \in DOMAIN ret :
                       \/ ret[i].score > r.score
                       \/ ret[i].score = r.score /\ ret[i].set_at <= r.set_at

\* topScores listed two rows of equal score, the earlier one first, while
\* another room held a row.
Wit_C8_TieOrder ==
    /\ last.op = "top"
    /\ Len(last.ret) = 2
    /\ last.ret[1].score = last.ret[2].score
    /\ last.ret[1].set_at < last.ret[2].set_at
    /\ \E r \in last.pre : r.channel # last.channel

\* C9: the table holds at most one entry per (room, user) pair.
Thm_C9_OneRowPerKey ==
    \A r1, r2 \in tab : SameKey(r1, r2) => r1 = r2

\* An update replaced the row its key already had, with other rows present.
Wit_C9_Replaced ==
    /\ last.op = "update"
    /\ KeyRows(last.pre) # {}
    /\ KeyRows(tab) # KeyRows(last.pre)
    /\ Cardinality(tab) >= 2

(***************************************************************************)
(* Properties of the store under concurrent calls (SpecThreads).           *)
(***************************************************************************)
\* Thread t is in a call whose read of the table is still to come.
ReadPending(t) ==
    pc[t] \in {"update_purge", "update_select", "lookup_purge", "lookup_select",
               "top_purge", "top_select"}

\* C3: concurrent updates of one (room, user) key are atomic, so that under
\* every interleaving a lower score never overwrites a higher valid one and
\* the stored score ends as the maximum of the prior valid score and the
\* submitted ones.
Cex_C3_AtomicUpdate ==
    ev.kind = "replace" =>
        \A r \in ev.removed :
            IsValid(r.set_at, ev.now) => ev.row[1].score >= r.score

\* C4: under every interleaving, a purge using an earlier now never deletes
\* an entry that is still valid for a call whose own read, with its own
\* later or equal now, is still to come.
Thm_C4_PurgeSafe ==
    ev.kind = "purge" =>
        \A r \in ev.removed : \A t \in Threads :
            (ReadPending(t) /\ loc[t].now >= ev.now) => ~IsValid(r.set_at, loc[t].now)

\* A purge deleted a row while another thread, started later, had yet to read.
Wit_C4_EarlierPurge ==
    /\ ev.kind = "purge"
    /\ ev.removed # {}
    /\ \E t \in Threads :
           t # ev.thread /\ ReadPending(t) /\ loc[t].now > ev.now

(***************************************************************************)
(* Properties of DicePouch (SpecPouch).                                    *)
(***************************************************************************)
\* The number of dice a dict holds: the sum of its counts.
RECURSIVE SumCounts(_, _)
SumCounts(d, faces) ==
    IF faces = {}
    THEN 0
    ELSE LET face == CHOOSE i \in faces : TRUE
         IN  d[face] + SumCounts(d, faces \ {face})

DiceIn(d) == SumCounts(d, DOMAIN d)

\* C10: the dice in kept plus the dice in dropped number count, in every
\* state after construction and after any drop operation, repeated drops and
\* drops with n > count included.
Cex_C10_Conservation ==
    DiceIn(pouch.dice) + DiceIn(pouch.dropped) = pouch.num

\* C11: for every rolled pouch and every n with 0 <= n <= count, the first
\* drop_lowest(n) moves exactly n dice from kept to dropped, face by face,
\* and afterwards every dropped face is <= every kept face.
Thm_C11_DropLowest ==
    (drops = 1 /\ lastDrop.n <= lastDrop.pre.num) =>
        /\ DiceIn(pouch.dropped) = lastDrop.n
        /\ DiceIn(pouch.dice) = DiceIn(lastDrop.pre.dice) - lastDrop.n
        /\ \A i \in DOMAIN lastDrop.pre.dice :
               GetOrZero(pouch.dice, i) + GetOrZero(pouch.dropped, i) = lastDrop.pre.dice[i]
        /\ (DOMAIN pouch.dice) \cup (DOMAIN pouch.dropped) = DOMAIN lastDrop.pre.dice
        /\ \A i \in DOMAIN pouch.dropped : \A j \in DOMAIN pouch.dice : i <= j

\* The first drop fell inside a group: the face is both dropped and kept,
\* with a lower face wholly dropped and a higher one wholly kept.
Wit_C11_SplitGroup ==
    /\ drops = 1
    /\ lastDrop.n <= lastDrop.pre.num
    /\ \E i \in (DOMAIN pouch.dice) \cap (DOMAIN pouch.dropped) :
           /\ \E l \in DOMAIN pouch.dropped : l < i
           /\ \E h \in DOMAIN pouch.dice : h > i

(***************************************************************************)
(* Properties of _roll_dice (SpecRollDice).                                *)
(***************************************************************************)
\* The count and the faces _roll_dice reads from the expression under test.
ExprCount == int(CountText(expr))
ExprFaces == int(expr.dice_type)

\* _roll_dice has been called, and int() accepted the count text.
Validated == rolled.how # "none" /\ IsInteger(CountText(expr))

\* The constructor returned a pouch of count dice, each in [1, faces],
\* recorded in kept, with dropped empty.
Constructed(p, count, faces) ==
    /\ p # NoPouch
    /\ p.num = count
    /\ DiceIn(p.dice) = count
    /\ DOMAIN p.dice \subseteq 1..faces
    /\ \A i \in DOMAIN p.dice : p.dice[i] >= 1
    /\ p.dropped = EmptyDict

\* C12: for every dice expression the roll pipeline accepts (count in
\* [0, 1000], faces >= 1, drop count n >= 0), the sum after the drop is <=
\* the sum before the drop, and the two are equal only when n = 0.
Cex_C12_SumAfterDrop ==
    (rolled.how = "returned" /\ rolled.drop # None) =>
        /\ get_sum(rolled.dice) <= get_sum(rolled.made)
        /\ get_sum(rolled.dice) = get_sum(rolled.made) => rolled.drop[1] = 0

\* C13 as stated: faces <= 0 fails with InvalidFaces(faces); count < 0 fails
\* with NegativeCount(count); count > 1000 fails with TooManyDice(count,
\* 1000); every other (count, faces) is constructed.
Cex_C13_Validation ==
    Validated =>
        /\ ExprFaces <= 0 => rolled = Raised("InvalidDiceFacesError", <<ExprFaces>>)
        /\ ExprCount < 0 => rolled = Raised("NegativeDiceCountError", <<ExprCount>>)
        /\ ExprCount > 1000 => rolled = Raised("TooManyDiceError", <<ExprCount, 1000>>)
        /\ (ExprFaces >= 1 /\ ExprCount >= 0 /\ ExprCount <= 1000) =>
               Constructed(rolled.made, ExprCount, ExprFaces)

\* C13: faces <= 0 fails with InvalidFaces(faces); with faces >= 1, count < 0
\* fails with NegativeCount(count) and count > 1000 fails with
\* TooManyDice(count, 1000); every other (count, faces) is constructed with
\* count dice, each in [1, faces], recorded in kept, and dropped empty.
Thm_C13_ValidationInOrder ==
    Validated =>
        /\ ExprFaces <= 0 => rolled = Raised("InvalidDiceFacesError", <<ExprFaces>>)
        /\ (ExprFaces >= 1 /\ ExprCount < 0) =>
               rolled = Raised("NegativeDiceCountError", <<ExprCount>>)
        /\ (ExprFaces >= 1 /\ ExprCount > 1000) =>
               rolled = Raised("TooManyDiceError", <<ExprCount, 1000>>)
        /\ (ExprFaces >= 1 /\ ExprCount >= 0 /\ ExprCount <= 1000) =>
               Constructed(rolled.made, ExprCount, ExprFaces)

\* Both the faces and the count of the expression were out of range, and
\* the call raised for the faces.
Wit_C13_FacesFirst ==
    /\ Validated
    /\ ExprFaces <= 0
    /\ ExprCount < 0
    /\ rolled.error = "InvalidDiceFacesError"

\* C18: drop_lowest(n) is never called by _roll_dice with n greater than the
\* pouch's count: an expression whose drop count exceeds its dice count is
\* rejected with UnableToDropDice.
Cex_C18_DropWithinCount ==
    /\ (rolled.how = "returned" /\ rolled.drop # None) =>
           rolled.drop[1] <= rolled.made.num
    /\ (Validated /\ rolled.made # NoPouch /\ expr.drop_lowest # None
            /\ int(expr.drop_lowest[1]) > ExprCount) =>
           rolled.error = "UnableToDropDiceError"

\* The terms of rendering r, kept and bracketed.
Terms(r) == Len(r.kept) + Len(r.dropped)

\* How many of the terms in sequence s are x.
Occurrences(s, x) == Cardinality({k \in DOMAIN s : s[k] = x})

\* C16: a pouch is rendered in simple form when its requested dice count is
\* <= 10; otherwise in compressed form when its groups, those of kept and
\* those of dropped counted together, are <= 10; otherwise as the elided
\* placeholder.  The simple form lists every die, at most 10 of them; the
\* compressed form has one term per group, at most 10 of them.
Thm_C16_RenderMode ==
    rendered # NotRendered =>
        LET dp == rolled.dice
            r == rendered.pretty_str
            groups == Cardinality(DOMAIN dp.dice) + Cardinality(DOMAIN dp.dropped)
        IN  /\ dp.num <= 1000
            /\ r.form = "simple" <=> dp.num <= 10
            /\ r.form = "compressed" <=> (dp.num > 10 /\ groups <= 10)
            /\ r.form = "(...)" <=> (dp.num > 10 /\ groups > 10)
            /\ r.form = "simple" =>
                   /\ Terms(r) = dp.num
                   /\ Terms(r) <= 10
                   /\ \A i \in DOMAIN dp.dice : Occurrences(r.kept, i) = dp.dice[i]
                   /\ \A i \in DOMAIN dp.dropped : Occurrences(r.dropped, i) = dp.dropped[i]
            /\ r.form = "compressed" =>
                   /\ Terms(r) = groups
                   /\ Terms(r) <= 10
                   /\ \A i \in DOMAIN dp.dice : Occurrences(r.kept, <<dp.dice[i], i>>) = 1
                   /\ \A i \in DOMAIN dp.dropped :
                          Occurrences(r.dropped, <<dp.dropped[i], i>>) = 1
            /\ r.form = "(...)" => Terms(r) = 0

\* More than ten dice, a face both kept and dropped and so counted as two
\* groups, rendered as "(...)".
Wit_C16_Elided ==
    /\ rendered # NotRendered
    /\ rolled.dice.num > 10
    /\ rendered.pretty_str.form = "(...)"
    /\ (DOMAIN rolled.dice.dice) \cap (DOMAIN rolled.dice.dropped) # {}

(***************************************************************************)
(* Properties of the parsing (SpecParse).                                  *)
(***************************************************************************)
\* t is s without the whitespace at its two ends.
Trimmed(s, t) ==
    /\ t # << >> => (t[1] \notin Whitespace /\ t[Len(t)] \notin Whitespace)
    /\ \E a \in 1..(Len(s) + 1) :
           /\ Len(s) >= a - 1 + Len(t)
           /\ t = SubSeq(s, a, a - 1 + Len(t))
           /\ \A j \in DOMAIN s : (j < a \/ j > a - 1 + Len(t)) => s[j] \in Whitespace

\* The positions of the comment delimiter in the text.
Hashes == {k \in DOMAIN text : text[k] = "#"}

\* The first of them.
FirstHash == CHOOSE k \in Hashes : \A j \in Hashes : k <= j

\* Every match lies in the searched text.
MatchesWithin(raw) ==
    \A k \in DOMAIN parsed.dice_expressions :
        /\ 1 <= parsed.dice_expressions[k].start
        /\ parsed.dice_expressions[k].start < parsed.dice_expressions[k].end
        /\ parsed.dice_expressions[k].end <= Len(raw) + 1

\* C19 as stated: the text preceding the comment delimiter "#" is discarded
\* before matching, so the text that is searched is what remains, from the
\* delimiter on.
Cex_C19_TextBeforeHashDiscarded ==
    (parsed # NoParse /\ Hashes # {}) =>
        /\ \/ Trimmed(SubSeq(text, FirstHash, Len(text)), parsed.arg_str_raw)
           \/ Trimmed(SubSeq(text, FirstHash + 1, Len(text)), parsed.arg_str_raw)
        /\ MatchesWithin(parsed.arg_str_raw)

\* C19: the first comment delimiter "#" and the text following it are
\* discarded before matching: the text searched is the text preceding the
\* delimiter (the whole text when there is none), stripped, and every dice
\* token is matched in it.
Thm_C19_TextAfterHashDiscarded ==
    (parsed # NoParse /\ text # << >>) =>
        /\ Hashes # {} => Trimmed(SubSeq(text, 1, FirstHash - 1), parsed.arg_str_raw)
        /\ Hashes = {} => Trimmed(text, parsed.arg_str_raw)
        /\ \A k \in DOMAIN parsed.arg_str_raw : parsed.arg_str_raw[k] # "#"
        /\ MatchesWithin(parsed.arg_str_raw)

\* A dice token stood after the delimiter, and no dice expression was found.
Wit_C19_TokenInComment ==
    /\ parsed # NoParse
    /\ Hashes # {}
    /\ \E i \in DOMAIN text : i > FirstHash /\ MatchAt(text, i) # NotFound
    /\ parsed.reply = "I couldn't find any valid dice expressions."

\* The text of match f in the searched text.
Token(raw, f) == SubSeq(raw, f.start, f.end - 1)

\* The groups of match f are the parts of its token: count text, d, faces
\* text and, when there is a drop, v and the drop text.
GroupsOfToken(raw, f) ==
    LET tok == Token(raw, f)
        g == f.groups
        n == Len(g.dice_num)
        t == Len(g.dice_type)
    IN  /\ Len(tok) >= n + 1 + t
        /\ SubSeq(tok, 1, n) = g.dice_num
        /\ g.dice_num \in {<< >>, <<"-">>} \/ IsInteger(g.dice_num)
        /\ tok[n + 1] \in {"d", "D"}
        /\ SubSeq(tok, n + 2, n + 1 + t) = g.dice_type
        /\ IsInteger(g.dice_type)
        /\ g.drop_lowest = None => Len(tok) = n + 1 + t
        /\ g.drop_lowest # None =>
               /\ Len(tok) = n + t + 2 + Len(g.drop_lowest[1])
               /\ tok[n + t + 2] \in {"v", "V"}
               /\ SubSeq(tok, n + t + 3, Len(tok)) = g.drop_lowest[1]
               /\ IsInteger(g.drop_lowest[1])

\* The parser yields the dice expressions in order of appearance and a
\* template in which each matched token is replaced by one positional
\* placeholder, as many placeholders as expressions, all the other text
\* preserved: filling the placeholders with the tokens gives the text back.
ParserYields ==
    LET raw == parsed.arg_str_raw
        found == parsed.dice_expressions
    IN  /\ \A k \in DOMAIN found : GroupsOfToken(raw, found[k])
        /\ \A k \in DOMAIN found : k > 1 => found[k - 1].end <= found[k].start
        /\ \A i \in DOMAIN raw :
               (\A k \in DOMAIN found : i < found[k].start \/ i >= found[k].end) =>
                   MatchAt(raw, i) = NotFound
        /\ Format(parsed.arg_str, [k \in DOMAIN found |-> Token(raw, found[k])]) =
               [ok |-> TRUE, str |-> raw]

\* An omitted count defaults to 1: "d20" is one die of twenty faces.
OmittedCountIsOne ==
    text = <<"d", "2", "0">> =>
        /\ Len(parsed.dice_expressions) = 1
        /\ int(CountText(parsed.dice_expressions[1].groups)) = 1
        /\ int(parsed.dice_expressions[1].groups.dice_type) = 20
        /\ parsed.dice_expressions[1].groups.drop_lowest = None

\* "2d6+3" yields exactly one expression, count 2, faces 6, no drop.
TwoDSixPlusThree ==
    /\ Len(parsed.dice_expressions) = 1
    /\ int(CountText(parsed.dice_expressions[1].groups)) = 2
    /\ int(parsed.dice_expressions[1].groups.dice_type) = 6
    /\ parsed.dice_expressions[1].groups.drop_lowest = None

\* C20 as stated: ... and the template of "2d6+3" is "(%s)+3".
Cex_C20_ParenthesizedTemplate ==
    parsed # NoParse =>
        /\ ParserYields
        /\ OmittedCountIsOne
        /\ text = <<"2", "d", "6", "+", "3">> =>
               /\ TwoDSixPlusThree
               /\ parsed.arg_str = <<"(", "%", "s", ")", "+", "3">>

\* C20: for every input the parser yields the dice expressions in order of
\* appearance and a template in which each matched token is replaced by one
\* positional placeholder, as many placeholders as expressions, all non-dice
\* text preserved; "2d6+3" yields exactly one expression {count 2, faces 6,
\* no drop} and the template "%s+3"; an omitted count ("d20") defaults to 1.
Thm_C20_ParserTemplate ==
    parsed # NoParse =>
        /\ ParserYields
        /\ OmittedCountIsOne
        /\ text = <<"2", "d", "6", "+", "3">> =>
               /\ TwoDSixPlusThree
               /\ parsed.arg_str = <<"%", "s", "+", "3">>

\* "2d6+3" has been parsed, into one expression and the template "%s+3".
Wit_C20_TwoDSixPlusThree ==
    /\ text = <<"2", "d", "6", "+", "3">>
    /\ parsed # NoParse
    /\ Len(parsed.dice_expressions) = 1
    /\ parsed.arg_str = <<"%", "s", "+", "3">>

(***************************************************************************)
(* Properties of the roll command (SpecRoll).                              *)
(***************************************************************************)
\* Dice expression g is invalid by the taxonomy of section 7: faces <= 0,
\* count < 0, count > 1000, or a negative drop count.
Invalid(g) ==
    \/ int(g.dice_type) <= 0
    \/ IsInteger(CountText(g)) /\ (int(CountText(g)) < 0 \/ int(CountText(g)) > 1000)
    \/ g.drop_lowest # None /\ int(g.drop_lowest[1]) < 0

\* The error message of invalid dice expression g.
ErrorOf(g) ==
    IF int(g.dice_type) <= 0
    THEN Message("InvalidDiceFacesError", <<int(g.dice_type)>>)
    ELSE IF int(CountText(g)) < 0
    THEN Message("NegativeDiceCountError", <<int(CountText(g))>>)
    ELSE IF int(CountText(g)) > 1000
    THEN Message("TooManyDiceError", <<int(CountText(g)), 1000>>)
    ELSE Message("UnableToDropDiceError", <<int(g.drop_lowest[1]), int(CountText(g))>>)

\* The invalid dice expressions of the command handled.
InvalidAt == {k \in DOMAIN request.dice_expressions : Invalid(request.dice_expressions[k])}

FirstInvalid == CHOOSE k \in InvalidAt : \A j \in InvalidAt : k <= j

\* C14: when a request contains several dice expressions and at least one
\* is invalid, the error reported is that of the first invalid expression in
\* left-to-right order, no arithmetic evaluation is attempted, no result line
\* is reported, and the high-score store is not updated.
Cex_C14_ErrorShortCircuit ==
    (outcome # NoOutcome /\ Len(request.dice_expressions) >= 2 /\ InvalidAt # {}) =>
        /\ outcome.said = <<ErrorOf(request.dice_expressions[FirstInvalid])>>
        /\ ~outcome.evaluated
        /\ tab = outcome.pre

\* The primary outcomes of a roll request: the no-dice-found notices, the
\* validation error messages, the result line, the overflow notices and the
\* generic parse-failure message.
PrimaryKinds ==
    {"No dice to roll.", "I couldn't find any valid dice expressions."}
    \cup DiceErrors
    \cup {"result", "very big", "I can't display a number that big.",
          "I don't know how to process that."}

FollowUpKinds == {"New weekly high score", "beats their previous weekly high"}

\* C15: for every input text a roll request ends in exactly one primary
\* outcome; no other outcome, such as an unhandled failure, is reachable.
Cex_C15_OutcomeTotality ==
    outcome # NoOutcome =>
        /\ outcome.raised = ""
        /\ outcome.said # << >>
        /\ outcome.said[1].kind \in PrimaryKinds
        /\ \A k \in DOMAIN outcome.said : k > 1 => outcome.said[k].kind \in FollowUpKinds

\* A result line has been reported.
Reported == outcome.said # << >> /\ outcome.said[1].kind = "result"

\* The rows of table t under the key of the command handled.
RequestRows(t) ==
    {r \in t : r.channel = Lower(request.sender) /\ r.nick = request.nick}

\* C17: the store is updated only after a result line has been reported and
\* only in a room-scoped context; the request then produces zero or one
\* follow-up notice: "new record" exactly when the user had no previous valid
\* score, "beaten personal best" exactly when the result is strictly greater
\* than the previous valid score, and none when the result is <= it.  Outside
\* a room-scoped context the store is left unchanged.
Thm_C17_LeaderboardFollowUp ==
    outcome # NoOutcome =>
        LET room == StartsWithHash(request.sender)
            notices == IF outcome.said = << >> THEN << >> ELSE Tail(outcome.said)
            old == {r \in RequestRows(outcome.pre) : IsValid(r.set_at, outcome.now)}
        IN  /\ tab # outcome.pre => (Reported /\ room)
            /\ notices # << >> => (Reported /\ room)
            /\ ~room => tab = outcome.pre
            /\ (Reported /\ room) =>
                   LET result == outcome.said[1].args[2]
                   IN  /\ Len(notices) <= 1
                       /\ old = {} <=>
                              notices = <<Message("New weekly high score",
                                                  <<request.nick, result>>)>>
                       /\ \A r \in old :
                              /\ result > r.score <=>
                                     notices = <<Message("beats their previous weekly high",
                                                         <<request.nick, r.score, result>>)>>
                              /\ result <= r.score <=> notices = << >>
                       /\ \E n \in RequestRows(tab) :
                              \A r \in old : n.score = Max(r.score, result)
                       /\ old = {} => RequestRows(tab) =
                              {Row(Lower(request.sender), request.nick, result, outcome.now)}

\* A roll in a channel equalled the sender's valid score: a result line and
\* no notice.
Wit_C17_Equalled ==
    /\ outcome # NoOutcome
    /\ Reported
    /\ StartsWithHash(request.sender)
    /\ Len(outcome.said) = 1
    /\ \E r \in RequestRows(outcome.pre) :
           IsValid(r.set_at, outcome.now) /\ r.score = outcome.said[1].args[2]

(***************************************************************************)
(* More properties of DicePouch (SpecPouch).                               *)
(***************************************************************************)
\* C21: drop_lowest(n) with n greater than count, on a rolled pouch, raises
\* no error and drains kept entirely into dropped: kept is empty, dropped
\* holds all count dice and the sum is 0; any further drop on a drained
\* pouch changes nothing.
Thm_C21_Drain ==
    /\ (drops = 1 /\ lastDrop.n > lastDrop.pre.num) =>
           /\ pouch.dice = EmptyDict
           /\ pouch.dropped = lastDrop.pre.dice
           /\ DiceIn(pouch.dropped) = pouch.num
           /\ get_sum(pouch) = 0
    /\ (drops >= 1 /\ lastDrop.pre.dice = EmptyDict) => pouch = lastDrop.pre

\* A drained pouch, all its dice of several faces in dropped, was dropped
\* from again with n greater than count.
Wit_C21_DroppedAgain ==
    /\ drops = 2
    /\ lastDrop.n > lastDrop.pre.num
    /\ lastDrop.pre.dice = EmptyDict
    /\ Cardinality(DOMAIN lastDrop.pre.dropped) >= 2
    /\ DiceIn(lastDrop.pre.dropped) = lastDrop.pre.num

(***************************************************************************)
(* More properties of _roll_dice (SpecRollDice).                           *)
(***************************************************************************)
\* The drop count _roll_dice reads from the expression under test.
ExprDrop == int(expr.drop_lowest[1])

\* A drop count of 0 is accepted and leaves kept unchanged and dropped empty.
DropZeroAccepted ==
    (Validated /\ rolled.made # NoPouch /\ expr.drop_lowest # None /\ ExprDrop = 0) =>
        /\ rolled.how = "returned"
        /\ rolled.drop = Some(0)
        /\ rolled.dice.dice = rolled.made.dice
        /\ rolled.dice.dropped = EmptyDict
        /\ Constructed(rolled.dice, ExprCount, ExprFaces)

\* The call raised UnableToDropDice(dropped = drop count, total = dice
\* count), returned no pouch, and nothing was rendered.
UnableToDrop ==
    /\ rolled.how = "raised"
    /\ rolled.error = "UnableToDropDiceError"
    /\ rolled.args = <<ExprDrop, ExprCount>>
    /\ rolled.dice = NoPouch
    /\ rendered = NotRendered

\* C22 as stated: a dice expression with a negative drop count fails with
\* UnableToDropDice(dropped = drop count, total = dice count); a drop count
\* of 0 is accepted and leaves kept unchanged and dropped empty.
Cex_C22_NegativeDrop ==
    /\ (Validated /\ expr.drop_lowest # None /\ ExprDrop < 0) => UnableToDrop
    /\ DropZeroAccepted

\* C22: a dice expression whose faces and count pass their validation and
\* whose drop count is negative fails with UnableToDropDice(dropped = drop
\* count, total = dice count) and aborts; a drop count of 0 is accepted and
\* leaves kept unchanged and dropped empty.
Thm_C22_NegativeDropOfValidDice ==
    /\ (Validated /\ expr.drop_lowest # None /\ ExprDrop < 0
            /\ ExprFaces >= 1 /\ ExprCount >= 0 /\ ExprCount <= 1000) => UnableToDrop
    /\ DropZeroAccepted

\* A pouch of two dice was constructed and the drop count -1 refused.
Wit_C22_Refused ==
    /\ rolled.how = "raised"
    /\ rolled.error = "UnableToDropDiceError"
    /\ rolled.args = <<0 - 1, 2>>
    /\ rolled.made # NoPouch

(***************************************************************************)
(* More properties of the high-score store (Spec).                         *)
(***************************************************************************)
\* A row set at set_at is expired at now: setAt < now - 7d.
Expired(set_at, now) == set_at < now - 7 * 86400

\* C23: whenever the existing (room, user) row has setAt < now - 7d,
\* update(room, user, score, now) returns None and stores (score, setAt =
\* now), for every score, a score lower than the expired row's included.
Thm_C23_ExpiredIsAbsent ==
    (last.op = "update"
        /\ \E r \in KeyRows(last.pre) : Expired(r.set_at, last.now)) =>
        /\ last.ret = None
        /\ KeyRows(tab) = {Row(last.channel, last.nick, last.score, last.now)}

\* An update found an expired row of a higher score and stored the lower one.
Wit_C23_LowerAfterExpiry ==
    /\ last.op = "update"
    /\ \E r \in KeyRows(last.pre) :
           Expired(r.set_at, last.now) /\ last.score < r.score
    /\ \E n \in KeyRows(tab) : n.score = last.score

\* Row r is not under the key of the last call.
OtherKey(r) == ~(r.channel = last.channel /\ r.nick = last.nick)

\* C25: update(room, user, score, now) removes every expired row of the
\* whole table, so that no row with setAt < now - 7d remains, and otherwise
\* changes at most the (room, user) row: every valid row of any other room or
\* user is left unchanged, and no row of another key is added.
Thm_C25_UpdateFrame ==
    last.op = "update" =>
        /\ \A r \in tab : ~Expired(r.set_at, last.now)
        /\ \A r \in last.pre :
               (OtherKey(r) /\ ~Expired(r.set_at, last.now)) => r \in tab
        /\ \A r \in tab : OtherKey(r) => r \in last.pre

\* An update removed the expired row of another key and left the valid row
\* of a third key as it was.
Wit_C25_SweptOthers ==
    /\ last.op = "update"
    /\ \E r \in last.pre : OtherKey(r) /\ Expired(r.set_at, last.now) /\ r \notin tab
    /\ \E r \in last.pre : OtherKey(r) /\ ~Expired(r.set_at, last.now) /\ r \in tab

WellFormed(d, faces) == \A i \in DOMAIN d : d[i] >= 1 /\ i \in 1..faces

NonEmptyGroups(d) == Cardinality({i \in DOMAIN d : d[i] >= 1})

\* C26: after construction and after every drop, each group of kept and of
\* dropped has a count of at least 1 and a face in 1..faces; a group the
\* latest drop drained is no longer in kept and is in dropped with all its
\* dice, and get_number_of_faces counts the non-empty groups only.
Thm_C26_GroupsWellFormed ==
    /\ WellFormed(pouch.dice, pouch.type)
    /\ WellFormed(pouch.dropped, pouch.type)
    /\ get_number_of_faces(pouch) =
           NonEmptyGroups(pouch.dice) + NonEmptyGroups(pouch.dropped)
    /\ drops >= 1 =>
           \A i \in DOMAIN lastDrop.pre.dice :
               \/ i \in DOMAIN pouch.dice
               \/ /\ i \in DOMAIN pouch.dropped
                  /\ pouch.dropped[i] = lastDrop.pre.dice[i]
                  /\ lastDrop.n >= lastDrop.pre.dice[i]

\* A drop drained the lowest group and left a higher one: kept has lost
\* the face, and two groups are counted, one kept and one dropped.
Wit_C26_DrainedGroupRemoved ==
    /\ drops = 1
    /\ \E i \in DOMAIN lastDrop.pre.dice :
           /\ i \notin DOMAIN pouch.dice
           /\ pouch.dropped[i] = lastDrop.pre.dice[i]
    /\ pouch.dice # EmptyDict
    /\ Cardinality(DOMAIN lastDrop.pre.dice) = 2
    /\ get_number_of_faces(pouch) = 2

====
